---- MODULE Spec2Model ----
(***************************************************************************)
(* Gem process supervisor: the lifecycle engine of core.ProcessManager     *)
(* (StartProcess, startClusterProcess, StopProcess, RestartProcess,        *)
(* monitorProcess) with the goroutines it spawns, the registry lock        *)
(* pm.mutex, the PID files and the supervised children.                    *)
(*                                                                         *)
(* A ManagedProcess object is a cell of `heap`; pm.processes maps a name   *)
(* to the index of a cell (Go: a pointer).  Every spawn allocates a new    *)
(* cell, and the PID of the child of cell i is i.                          *)
(***************************************************************************)
EXTENDS Integers, Sequences, FiniteSets, TLC

\* ------------------------------------------------------------------ bounds
MaxProcs == 3          \* ManagedProcess objects (= child spawns) per run
MaxCalls == 3          \* API calls (StartProcess, StopProcess, RestartProcess) per run

Clients == {"c1", "c2"}                 \* concurrent API callers
Names == {"a"}                          \* names of single-process descriptors
ClusterNames == {"web"}                 \* names of cluster descriptors
RestartValues == {"always", "on-failure", "never"}
MaxRestartsValues == {0, 1}
ProcIds == 1..MaxProcs

VARIABLES
    processes,   \* pm.processes: name -> index of the registered object, 0 = no entry
    heap,        \* the ManagedProcess objects allocated so far (a sequence)
    child,       \* OS state of each object's child: "alive"; exited with status
                 \* "zero" or "fail" (non-zero status or a signal); "reaped" once
                 \* the monitor's Wait has collected the status
    waited,      \* Cmd.ProcessState is set: a Cmd.Wait on the object has returned
    mon,         \* position of the object's monitorProcess goroutine
    waiter,      \* the goroutines StopProcess started on the object, by position
    stops,       \* StopProcess calls that returned nil on the object
    pidFile,     \* <name>.pid: the PID written, 0 = no file
    mutex,       \* pm.mutex: "" = free, else the caller holding the write lock
    pc,          \* position of each API caller
    last,        \* the API call that returned in the step just taken, with its result
    desc,        \* the descriptor the callers submit for each name
    calls,       \* API calls made so far
    hist,        \* history: how each object was spawned and by which lineage
    forced,      \* history: the objects on which a StopProcess with force returned nil
    \* A fresh ProcessManager rooted at the directory an earlier one left behind:
    disk,        \* per name, <name>.pid (0 = no file) and <name>.gem
    osAlive,     \* the PIDs of live processes
    started,     \* history: the descriptor the earlier StartProcess was given
    boot,        \* history: the PID files and live PIDs when the manager was built
    runningProcesses,  \* the map built by utils.GetRunningProcesses, 0 = no entry
    recovered,   \* pm.processes of the fresh manager
    rpc,         \* position of LoadRunningProcesses
    \* AttachShell / DetachShell on the records of a registry:
    shellProcs,  \* pm.processes: name -> object id, 0 when the name is absent
    shellHeap,   \* the ManagedProcess objects with their PTY field, by object id
    shellPc,     \* per client, the AttachShell call between pty.Start and the store
    ptys,        \* the PTY masters that are open
    ptyCount,    \* PTY masters allocated so far
    signals,     \* the PIDs of supervised children that were sent a signal
    shellLast,   \* the shell call that returned in the step just taken
    \* GetLogs:
    logFiles,    \* the log file of each stream: its lines, or missing
    logCall,     \* the GetLogs call with its arguments and result
    \* GET /processes:
    apiProcesses,   \* the names of the records ListProcesses returns
    apiResponse,    \* the names in the JSON array of the response
    \* ScriptService:
    scripts,     \* the persisted <name>.json files, by script name
    cronEntries, \* the entries registered in the cron scheduler
    scriptLast,  \* the ScriptService call that returned in the step just taken
    \* the file-based ProcessService:
    svc,         \* the Process object of the one service process
    svcLog,      \* the lines of <name>.out.log
    svcRun,      \* the child and the goroutine startProcess left behind
    \* lock operations of the ProcessManager methods:
    threads,     \* per thread, the lock operations it still has to do
    held,        \* per thread, the locks it holds, in order of acquisition
    \* the monitor's wait before a restart:
    clock,       \* the time, in ticks of the monitor's observation latency
    timed,       \* the record with RestartDelay, and the instants of exit and respawn
    \* LoadProcessConfig on a descriptor file written by hand:
    gemFile,     \* the keys present in the file, with their values
    loaded       \* the ProcessConfig LoadProcessConfig returned for it

vars == <<processes, heap, child, waited, mon, waiter, stops, pidFile, mutex, pc, last, desc, calls, hist,
          forced, disk, osAlive, started, boot, runningProcesses, recovered, rpc,
          shellProcs, shellHeap, shellPc, ptys, ptyCount, signals, shellLast, logFiles, logCall,
          apiProcesses, apiResponse, scripts, cronEntries, scriptLast,
          svc, svcLog, svcRun, threads, held, clock, timed, gemFile, loaded>>
timeVars == <<clock, timed>>
configVars == <<gemFile, loaded>>
shellVars == <<shellProcs, shellHeap, shellPc, ptys, ptyCount, signals, shellLast>>
logVars == <<logFiles, logCall>>
apiVars == <<apiProcesses, apiResponse>>
scriptVars == <<scripts, cronEntries, scriptLast>>
serviceVars == <<svc, svcLog, svcRun>>
lockVars == <<threads, held>>
engineVars == <<processes, heap, child, waited, mon, waiter, stops, pidFile, mutex, pc, last, desc, calls, hist, forced>>
recoveryVars == <<disk, osAlive, started, boot, runningProcesses, recovered, rpc>>
outsideEngine == <<recoveryVars, shellVars, logVars, apiVars, scriptVars, serviceVars, lockVars, timeVars, configVars>>
outsideRecovery == <<engineVars, shellVars, logVars, apiVars, scriptVars, serviceVars, lockVars, timeVars, configVars>>
outsideShell == <<engineVars, recoveryVars, logVars, apiVars, scriptVars, serviceVars, lockVars, timeVars, configVars>>
outsideLogs == <<engineVars, recoveryVars, shellVars, apiVars, scriptVars, serviceVars, lockVars, timeVars, configVars>>
outsideApi == <<engineVars, recoveryVars, shellVars, logVars, scriptVars, serviceVars, lockVars, timeVars, configVars>>
outsideScripts == <<engineVars, recoveryVars, shellVars, logVars, apiVars, serviceVars, lockVars, timeVars, configVars>>
outsideService == <<engineVars, recoveryVars, shellVars, logVars, apiVars, scriptVars, lockVars, timeVars, configVars>>
outsideTime == <<engineVars, recoveryVars, shellVars, logVars, apiVars, scriptVars, serviceVars,
                 lockVars, configVars>>
outsideConfig == <<engineVars, recoveryVars, shellVars, logVars, apiVars, scriptVars, serviceVars,
                   lockVars, timeVars>>
outsideLocks == <<engineVars, recoveryVars, shellVars, logVars, apiVars, scriptVars, serviceVars, timeVars, configVars>>

\* ---------------------------------------------------------------- descriptors
\* config.ProcessConfig, reduced to the fields the lifecycle engine reads.
ProcessConfig(name, restart, maxRestarts, instances) ==
    [Name |-> name, Restart |-> restart, MaxRestarts |-> maxRestarts,
     Instances |-> instances]

SingleConfigs ==
    { ProcessConfig(n, r, m, 0) : n \in Names, r \in RestartValues, m \in MaxRestartsValues }

ClusterConfigs == { ProcessConfig(n, "always", 0, 2) : n \in ClusterNames }

\* ------------------------------------------------------------------- objects
\* Mutant of NewManagedProcess: the object lists itself as a cluster child.
NewManagedProcessWithChild(procConfig, pid) ==
    [Config |-> procConfig, PID |-> pid, Status |-> "running", Restarts |-> 0,
     ClusterProcs |-> <<pid>>]

\* Mutant of NewManagedProcess: the object is built before the child has a PID.
NewManagedProcessUnspawned(procConfig, pid) ==
    [Config |-> procConfig, PID |-> 0, Status |-> "running", Restarts |-> 0,
     ClusterProcs |-> <<>>]

\* &ManagedProcess{Config, Cmd, PID, Status: "running", ...}; Restarts is zero.
NewManagedProcess(procConfig, pid) ==
    [Config |-> procConfig, PID |-> pid, Status |-> "running", Restarts |-> 0,
     ClusterProcs |-> <<>>]

Idle == [op |-> "idle"]
NoCall == [op |-> "none"]

Exists(name) == processes[name] # 0
Proc(name) == heap[processes[name]]

\* GetProcess: the registered object, or 0 for "not found".
GetProcess(name) == IF name \in DOMAIN processes THEN processes[name] ELSE 0

\* ListProcesses: the registered objects, one element per map entry.
RECURSIVE ListOf(_)
ListOf(names) ==
    IF names = {} THEN <<>>
    ELSE LET n == CHOOSE x \in names : TRUE
         IN  IF Exists(n) THEN <<processes[n]>> \o ListOf(names \ {n})
             ELSE ListOf(names \ {n})
ListProcesses == ListOf(DOMAIN processes)

Exited(i) == child[i] \in {"zero", "fail", "reaped"}

\* ------------------------------------------------------- persisted descriptors
RecNames == {"svc", "job"}              \* names found in the processes directory
PidOf(n) == IF n = "svc" THEN 1 ELSE 2  \* the PID an earlier StartProcess wrote for n

DefaultRestart == "on-failure"
DefaultMaxRestarts == 10
DefaultRestartDelay == 3

\* A ProcessConfig with the RestartDelay field, which the descriptor file carries.
ProcessConfigWithDelay(name, restart, maxRestarts, restartDelay, instances) ==
    [RestartDelay |-> restartDelay] @@ ProcessConfig(name, restart, maxRestarts, instances)

RestartsPersisted == {"", "always"}
MaxRestartsPersisted == {0, 2}
RestartDelaysPersisted == {0, 1}
PersistedConfigs(n) ==
    { ProcessConfigWithDelay(n, r, m, d, 0) :
        r \in RestartsPersisted, m \in MaxRestartsPersisted, d \in RestartDelaysPersisted }

\* saveConfigFile: the keys set on the viper instance that is written to
\* <name>.gem; a key is set only when its field is not the zero value.
saveConfigFile(procConfig) ==
    LET keys == {"name"}
                \cup (IF procConfig.Restart # "" THEN {"restart"} ELSE {})
                \cup (IF procConfig.MaxRestarts > 0 THEN {"max_restarts"} ELSE {})
                \cup (IF procConfig.RestartDelay > 0 THEN {"restart_delay"} ELSE {})
                \cup (IF procConfig.Instances > 0 THEN {"cluster.instances"} ELSE {})
    IN  [k \in keys |->
           CASE k = "name" -> procConfig.Name
             [] k = "restart" -> procConfig.Restart
             [] k = "max_restarts" -> procConfig.MaxRestarts
             [] k = "restart_delay" -> procConfig.RestartDelay
             [] k = "cluster.instances" -> procConfig.Instances]

\* config.LoadProcessConfig on the keys of a file: Unmarshal leaves the field of
\* an absent key at its zero value, then every zero field gets its default.
LoadProcessConfig(yaml) ==
    LET name == IF "name" \in DOMAIN yaml THEN yaml["name"] ELSE ""
        restart == IF "restart" \in DOMAIN yaml THEN yaml["restart"] ELSE ""
        maxRestarts == IF "max_restarts" \in DOMAIN yaml THEN yaml["max_restarts"] ELSE 0
        restartDelay == IF "restart_delay" \in DOMAIN yaml THEN yaml["restart_delay"] ELSE 0
        instances == IF "cluster.instances" \in DOMAIN yaml THEN yaml["cluster.instances"] ELSE 0
    IN  ProcessConfigWithDelay(
            name,
            IF restart = "" THEN DefaultRestart ELSE restart,
            IF maxRestarts = 0 THEN DefaultMaxRestarts ELSE maxRestarts,
            IF restartDelay = 0 THEN DefaultRestartDelay ELSE restartDelay,
            instances)

\* <name>.gem: absent, or a file with the keys written.  os.Create leaves an
\* empty file when the write that follows it fails.
NoFile == [kind |-> "absent"]
GemFile(yaml) == [kind |-> "file", yaml |-> yaml]
EmptyYaml == [k \in {} |-> ""]

NoDesc == [Name |-> ""]
NoRecord == [Status |-> "none"]

\* Mutant of RecoveredProcess: the PID read from the file is not copied.
RecoveredProcessNoPID(procConfig, pid) ==
    [Config |-> procConfig, PID |-> 0, Status |-> "running", Restarts |-> 0,
     ClusterProcs |-> <<>>, Cmd |-> FALSE]

\* The record LoadRunningProcesses builds: no Cmd, hence nothing to Wait on.
RecoveredProcess(procConfig, pid) ==
    [Config |-> procConfig, PID |-> pid, Status |-> "running", Restarts |-> 0,
     ClusterProcs |-> <<>>, Cmd |-> FALSE]

\* The position of LoadRunningProcesses: scanning the PID files, loading the
\* descriptors of the running ones, or returned.
ScanDone(rp) ==
    LET todo == {n \in RecNames : rp[n] # 0}
    IN  IF todo = {} THEN [phase |-> "done", todo |-> {}]
        ELSE [phase |-> "load", todo |-> todo]

\* The components that take no part in a run keep these values.
NoShell ==
    /\ shellProcs = <<>> /\ shellHeap = <<>> /\ shellPc = <<>>
    /\ ptys = {} /\ ptyCount = 0 /\ signals = {}
    /\ shellLast = NoCall
NoLogs == logFiles = <<>> /\ logCall = NoCall
NoApi == apiProcesses = {} /\ apiResponse = NoCall
NoScripts == scripts = <<>> /\ cronEntries = <<>> /\ scriptLast = NoCall
NoService == svc = NoRecord /\ svcLog = <<>> /\ svcRun = NoCall
NoLocks == threads = <<>> /\ held = <<>>
NoClock == clock = 0 /\ timed = NoRecord
NoConfig == gemFile = NoFile /\ loaded = NoDesc

\* No recovery takes place in a run of the lifecycle engine.
NoRecovery ==
    /\ disk = [n \in RecNames |-> [pid |-> 0, gem |-> NoFile]]
    /\ osAlive = {}
    /\ started = [n \in RecNames |-> NoDesc]
    /\ boot = [pid |-> [n \in RecNames |-> 0], alive |-> {}]
    /\ runningProcesses = [n \in RecNames |-> 0]
    /\ recovered = [n \in RecNames |-> NoRecord]
    /\ rpc = [phase |-> "off", todo |-> {}]

Init ==
    /\ processes = [n \in Names |-> 0]
    /\ heap = <<>>
    /\ child = <<>>
    /\ waited = <<>>
    /\ mon = <<>>
    /\ waiter = <<>>
    /\ stops = <<>>
    /\ pidFile = [n \in Names |-> 0]
    /\ mutex = ""
    /\ pc = [c \in Clients |-> Idle]
    /\ last = NoCall
    /\ calls = 0
    /\ desc \in [Names \cup ClusterNames -> SingleConfigs \cup ClusterConfigs]
    /\ \A n \in DOMAIN desc : desc[n].Name = n
    /\ hist = <<>>
    /\ forced = {}
    /\ NoRecovery
    /\ NoShell /\ NoLogs /\ NoApi /\ NoScripts /\ NoService /\ NoLocks /\ NoClock /\ NoConfig

\* ---------------------------------------------------------------- StartProcess
\* The check at the head of StartProcess: an entry whose Status is "running".
AlreadyRunning(name) == Exists(name) /\ Proc(name).Status = "running"

\* The single-process path of StartProcess after a successful cmd.Start():
\* the new object, its PID file, the map entry and the monitor goroutine.
\* origin, from and gen are history: which operation spawned, for which monitored
\* object (0 for an API call), and the spawn's number in its lineage.
Spawn(procConfig, origin, from, gen, heapNow, monNow) ==
    LET i == Len(heap) + 1 IN
    /\ i <= MaxProcs
    /\ heap' = Append(heapNow, NewManagedProcess(procConfig, i))
    /\ child' = Append(child, "alive")
    /\ waited' = Append(waited, FALSE)
    /\ mon' = Append(monNow, "wait")
    /\ waiter' = Append(waiter, [wait |-> 0, unreg |-> 0])
    /\ stops' = Append(stops, 0)
    /\ hist' = Append(hist, [origin |-> origin, from |-> from, gen |-> gen])
    /\ pidFile' = [pidFile EXCEPT ![procConfig.Name] = i]
    /\ processes' = [processes EXCEPT ![procConfig.Name] = i]

\* Mutant of NoSpawn: a start that does not spawn removes the PID file it finds.
NoSpawnClearsPID ==
    /\ UNCHANGED <<heap, child, waited, mon, waiter, stops, hist, processes>>
    /\ pidFile' = [n \in Names |-> 0]

NoSpawn == UNCHANGED <<heap, child, waited, mon, waiter, stops, hist, pidFile, processes>>

\* An API caller makes its next call.
NewCall == calls < MaxCalls /\ calls' = calls + 1

\* What an API call returned: its error ("" for nil) and, for StartProcess,
\* the object returned.
Returned(op, name, err, proc) == [op |-> op, name |-> name, err |-> err, proc |-> proc]

\* StartProcess(procConfig) called by an API caller with the descriptor of
\* `name`.  The whole call runs under pm.mutex.
StartProcess(c, name) ==
    /\ pc[c] = Idle
    /\ NewCall
    /\ mutex = ""
    /\ IF name \in Names /\ AlreadyRunning(name)
       THEN /\ last' = Returned("StartProcess", name, "already running", 0)
            /\ NoSpawn
            /\ UNCHANGED <<mutex, pc>>
       ELSE IF desc[name].Instances > 1
       THEN \* startClusterProcess: the StartProcess of worker 0 locks pm.mutex,
            \* which this caller holds until its own StartProcess returns.
            /\ mutex' = c
            /\ pc' = [pc EXCEPT ![c] = [op |-> "startClusterProcess", name |-> name,
                                        worker |-> 0]]
            /\ NoSpawn
            /\ last' = NoCall
       ELSE \E ok \in BOOLEAN :
            IF ok
            THEN /\ Spawn(desc[name], "start", 0, 1, heap, mon)
                 /\ last' = Returned("StartProcess", name, "", Len(heap) + 1)
                 /\ UNCHANGED <<mutex, pc>>
            ELSE /\ last' = Returned("StartProcess", name, "start failed", 0)
                 /\ NoSpawn
                 /\ UNCHANGED <<mutex, pc>>
    /\ UNCHANGED <<desc, forced>>
    /\ UNCHANGED outsideEngine

\* ------------------------------------------------------------------- children
\* The supervised child terminates by itself, with exit status zero or not.
ChildExit(i, how) ==
    /\ i \in 1..Len(heap)
    /\ child[i] = "alive"
    /\ child' = [child EXCEPT ![i] = how]
    /\ UNCHANGED <<processes, heap, waited, mon, waiter, stops, pidFile, mutex, pc, desc, calls, hist, forced>>
    /\ UNCHANGED outsideEngine
    /\ last' = NoCall

\* ------------------------------------------------------------- monitorProcess
\* err of proc.Cmd.Wait() in the monitor: non-nil when the child exited non-zero
\* or by a signal.  When a StopProcess goroutine waits on the same Cmd, the two
\* unsynchronised Wait calls race and the monitor's may also fail.
WaitErrs(i) == {child[i] = "fail"} \cup (IF stops[i] > 0 THEN {TRUE} ELSE {})

\* Mutant of ShouldRestart: on-failure restarts whatever the exit was.
ShouldRestartAnyExit(procConfig, err) ==
    procConfig.Restart \in {"always", "on-failure"}

\* shouldRestart, from the restart policy and the err of Wait.
ShouldRestart(procConfig, err) ==
    \/ procConfig.Restart = "always"
    \/ procConfig.Restart = "on-failure" /\ err

\* The max-restarts check on the object being monitored.
RestartAllowed(proc) ==
    proc.Config.MaxRestarts = 0 \/ proc.Restarts < proc.Config.MaxRestarts

\* Wait returns: Status becomes "stopped" and the monitor takes one of its branches.
MonitorObserve(i) ==
    /\ i \in 1..Len(heap)
    /\ mon[i] = "wait"
    /\ Exited(i)
    /\ \E err \in WaitErrs(i) :
         mon' = [mon EXCEPT ![i] =
                   IF ShouldRestart(heap[i].Config, err) /\ RestartAllowed(heap[i])
                   THEN "sleep" ELSE "cleanup"]
    /\ heap' = [heap EXCEPT ![i].Status = "stopped"]
    /\ waited' = [waited EXCEPT ![i] = TRUE]
    /\ child' = [child EXCEPT ![i] = "reaped"]
    /\ UNCHANGED <<processes, waiter, stops, pidFile, mutex, pc, desc, calls, hist, forced>>
    /\ UNCHANGED outsideEngine
    /\ last' = NoCall

\* Restart branch, after the sleep: proc.Restarts++ on the monitored object,
\* then pm.StartProcess(proc.Config) under pm.mutex; an error is only logged.
MonitorRestart(i) ==
    /\ i \in 1..Len(heap)
    /\ mon[i] = "sleep"
    /\ mutex = ""
    /\ LET cfg == heap[i].Config
           monNow == [mon EXCEPT ![i] = "done"]
           heapNow == [heap EXCEPT ![i].Restarts = @ + 1]
       IN  IF AlreadyRunning(cfg.Name)
           THEN /\ mon' = monNow
                /\ heap' = heapNow
                /\ UNCHANGED <<child, waited, waiter, stops, hist, pidFile, processes>>
           ELSE \E ok \in BOOLEAN :
                IF ok
                THEN Spawn(cfg, "monitor", i, hist[i].gen + 1, heapNow, monNow)
                ELSE /\ mon' = monNow
                     /\ heap' = heapNow
                     /\ UNCHANGED <<child, waited, waiter, stops, hist, pidFile, processes>>
    /\ UNCHANGED <<mutex, pc, desc, calls, forced>>
    /\ UNCHANGED outsideEngine
    /\ last' = NoCall

\* No-restart branch: utils.DeletePIDFile(proc.Config.Name, ...).
MonitorDeletePID(i) ==
    /\ i \in 1..Len(heap)
    /\ mon[i] = "cleanup"
    /\ pidFile' = [pidFile EXCEPT ![heap[i].Config.Name] = 0]
    /\ mon' = [mon EXCEPT ![i] = "unreg"]
    /\ UNCHANGED <<processes, heap, child, waited, waiter, stops, mutex, pc, desc, calls, hist, forced>>
    /\ UNCHANGED outsideEngine
    /\ last' = NoCall

\* No-restart branch: delete(pm.processes, proc.Config.Name) under pm.mutex.
MonitorUnregister(i) ==
    /\ i \in 1..Len(heap)
    /\ mon[i] = "unreg"
    /\ mutex = ""
    /\ processes' = [processes EXCEPT ![heap[i].Config.Name] = 0]
    /\ mon' = [mon EXCEPT ![i] = "done"]
    /\ UNCHANGED <<heap, child, waited, waiter, stops, pidFile, mutex, pc, desc, calls, hist, forced>>
    /\ UNCHANGED outsideEngine
    /\ last' = NoCall

\* ----------------------------------------------------------------- StopProcess
\* What the signal does to the child: SIGKILL ends it; SIGTERM ends it unless
\* the child handles the signal, and then it may exit later by itself.
AfterSignal(state, force) ==
    IF state # "alive" THEN {state}
    ELSE IF force THEN {"fail"} ELSE {"fail", "alive"}

\* StopProcess(name, force) on a registered single object i, after the lookup:
\* Kill or Signal(SIGTERM) succeeds until the process has been waited for; then
\* Status = "stopped" and the goroutine that waits for the exit is started.
\* No registered object has ClusterProcs, so the cluster path is never taken.
StopSucceeds(i) == ~waited[i]

Signalled(i, force) ==
    /\ \E st \in AfterSignal(child[i], force) : child' = [child EXCEPT ![i] = st]
    /\ heap' = [heap EXCEPT ![i].Status = "stopped"]
    /\ waiter' = [waiter EXCEPT ![i].wait = @ + 1]
    /\ stops' = [stops EXCEPT ![i] = @ + 1]
    /\ forced' = IF force THEN forced \cup {i} ELSE forced

\* StopProcess(name, force) called by an API caller.
StopProcess(c, name, force) ==
    /\ pc[c] = Idle
    /\ NewCall
    /\ mutex = ""
    /\ IF ~Exists(name)
       THEN /\ last' = Returned("StopProcess", name, "not found", 0)
            /\ UNCHANGED <<heap, child, waiter, stops, forced>>
       ELSE IF ~StopSucceeds(processes[name])
       THEN /\ last' = Returned("StopProcess", name, "process already finished", 0)
            /\ UNCHANGED <<heap, child, waiter, stops, forced>>
       ELSE /\ Signalled(processes[name], force)
            /\ last' = Returned("StopProcess", name, "", processes[name])
    /\ UNCHANGED <<processes, waited, mon, pidFile, mutex, pc, desc, hist>>
    /\ UNCHANGED outsideEngine

\* The goroutine of StopProcess: proc.Cmd.Wait() returns once the child has
\* exited; closeLogFiles; utils.DeletePIDFile(name, ...).
WaiterObserve(i) ==
    /\ i \in 1..Len(heap)
    /\ waiter[i].wait > 0
    /\ Exited(i)
    /\ waited' = [waited EXCEPT ![i] = TRUE]
    /\ pidFile' = [pidFile EXCEPT ![heap[i].Config.Name] = 0]
    /\ waiter' = [waiter EXCEPT ![i] = [wait |-> @.wait - 1, unreg |-> @.unreg + 1]]
    /\ UNCHANGED <<processes, heap, child, mon, stops, mutex, pc, desc, calls, hist, forced>>
    /\ UNCHANGED outsideEngine
    /\ last' = NoCall

\* The goroutine of StopProcess: delete(pm.processes, name) under pm.mutex.
WaiterUnregister(i) ==
    /\ i \in 1..Len(heap)
    /\ waiter[i].unreg > 0
    /\ mutex = ""
    /\ processes' = [processes EXCEPT ![heap[i].Config.Name] = 0]
    /\ waiter' = [waiter EXCEPT ![i].unreg = @ - 1]
    /\ UNCHANGED <<heap, child, waited, mon, stops, pidFile, mutex, pc, desc, calls, hist, forced>>
    /\ UNCHANGED outsideEngine
    /\ last' = NoCall

\* -------------------------------------------------------------- RestartProcess
\* RestartProcess(name) up to its sleep: the lookup under pm.mutex.RLock, then
\* pm.StopProcess(name, false), whose error is returned.
RestartProcess(c, name) ==
    /\ pc[c] = Idle
    /\ NewCall
    /\ mutex = ""
    /\ IF ~Exists(name)
       THEN /\ last' = Returned("RestartProcess", name, "not found", 0)
            /\ UNCHANGED <<heap, child, waiter, stops, forced, pc>>
       ELSE IF ~StopSucceeds(processes[name])
       THEN /\ last' = Returned("RestartProcess", name, "process already finished", 0)
            /\ UNCHANGED <<heap, child, waiter, stops, forced, pc>>
       ELSE /\ Signalled(processes[name], FALSE)
            /\ pc' = [pc EXCEPT ![c] = [op |-> "RestartProcess", name |-> name]]
            /\ last' = NoCall
    /\ UNCHANGED <<processes, waited, mon, pidFile, mutex, desc, hist>>
    /\ UNCHANGED outsideEngine

\* After the sleep: pm.StartProcess(proc.Config), whose result RestartProcess returns.
RestartStart(c) ==
    /\ pc[c].op = "RestartProcess"
    /\ mutex = ""
    /\ LET name == pc[c].name IN
       IF AlreadyRunning(name)
       THEN /\ last' = Returned("RestartProcess", name, "already running", 0)
            /\ NoSpawn
       ELSE \E ok \in BOOLEAN :
            IF ok
            THEN /\ Spawn(desc[name], "restart", 0, 1, heap, mon)
                 /\ last' = Returned("RestartProcess", name, "", Len(heap) + 1)
            ELSE /\ last' = Returned("RestartProcess", name, "start failed", 0)
                 /\ NoSpawn
    /\ pc' = [pc EXCEPT ![c] = Idle]
    /\ UNCHANGED <<mutex, desc, calls, forced>>
    /\ UNCHANGED outsideEngine

Next ==
    \/ \E c \in Clients, n \in Names \cup ClusterNames : StartProcess(c, n)
    \/ \E i \in ProcIds, how \in {"zero", "fail"} : ChildExit(i, how)
    \/ \E c \in Clients, n \in Names, force \in BOOLEAN : StopProcess(c, n, force)
    \/ \E c \in Clients, n \in Names : RestartProcess(c, n)
    \/ \E c \in Clients : RestartStart(c)
    \/ \E i \in ProcIds : WaiterObserve(i)
    \/ \E i \in ProcIds : WaiterUnregister(i)
    \/ \E i \in ProcIds : MonitorObserve(i)
    \/ \E i \in ProcIds : MonitorRestart(i)
    \/ \E i \in ProcIds : MonitorDeletePID(i)
    \/ \E i \in ProcIds : MonitorUnregister(i)

Spec == Init /\ [][Next]_vars

\* The goroutines (monitors, StopProcess waiters) and a caller inside
\* RestartProcess keep running: the Go scheduler runs every runnable goroutine.
\* Nothing forces a child to exit or a caller to make a call.
Fairness ==
    /\ \A i \in ProcIds :
         /\ WF_vars(MonitorObserve(i))
         /\ WF_vars(MonitorRestart(i))
         /\ WF_vars(MonitorDeletePID(i))
         /\ WF_vars(MonitorUnregister(i))
         /\ WF_vars(WaiterObserve(i))
         /\ WF_vars(WaiterUnregister(i))
    /\ \A c \in Clients : WF_vars(RestartStart(c))

FairSpec == Spec /\ Fairness

\* ------------------------------------------------------ LoadRunningProcesses
\* A fresh ProcessManager over the directory left by an earlier one: for each
\* name that was started, the PID file is there or was deleted, the child is
\* alive or not, and the descriptor file is missing, empty or as saveConfigFile
\* wrote it.
GemFilesOf(d) == {NoFile, GemFile(EmptyYaml), GemFile(saveConfigFile(d))}

\* The lifecycle engine takes no part in a run: a manager that gets no call.
NoEngine ==
    /\ processes = [n \in Names |-> 0]
    /\ heap = <<>> /\ child = <<>> /\ waited = <<>> /\ mon = <<>>
    /\ waiter = <<>> /\ stops = <<>> /\ hist = <<>> /\ forced = {}
    /\ pidFile = [n \in Names |-> 0]
    /\ mutex = ""
    /\ pc = [c \in Clients |-> Idle]
    /\ last = NoCall
    /\ calls = 0
    /\ desc = [n \in Names \cup ClusterNames |->
                 IF n \in Names THEN ProcessConfig(n, "never", 0, 0)
                 ELSE ProcessConfig(n, "always", 0, 2)]

RecoveryInit ==
    /\ NoEngine
    /\ NoShell /\ NoLogs /\ NoApi /\ NoScripts /\ NoService /\ NoLocks /\ NoClock /\ NoConfig
    /\ started \in [RecNames -> {NoDesc} \cup UNION {PersistedConfigs(n) : n \in RecNames}]
    /\ \A n \in RecNames : started[n] = NoDesc \/ started[n].Name = n
    /\ disk \in [RecNames ->
                  [pid : {0} \cup {PidOf(n) : n \in RecNames},
                   gem : {NoFile} \cup UNION {GemFilesOf(started[n]) : n \in {m \in RecNames : started[m] # NoDesc}}]]
    /\ \A n \in RecNames :
          IF started[n] = NoDesc
          THEN disk[n] = [pid |-> 0, gem |-> NoFile]
          ELSE disk[n].pid \in {0, PidOf(n)} /\ disk[n].gem \in GemFilesOf(started[n])
    /\ osAlive \in SUBSET {disk[n].pid : n \in {m \in RecNames : disk[m].pid # 0}}
    /\ boot = [pid |-> [n \in RecNames |-> disk[n].pid], alive |-> osAlive]
    /\ runningProcesses = [n \in RecNames |-> 0]
    /\ recovered = [n \in RecNames |-> NoRecord]
    /\ rpc = IF \A n \in RecNames : disk[n].pid = 0
             THEN [phase |-> "done", todo |-> {}]
             ELSE [phase |-> "scan", todo |-> {n \in RecNames : disk[n].pid # 0}]

\* utils.GetRunningProcesses, one PID file: ReadPIDFile, IsProcessRunning, and
\* either an entry in the result or DeletePIDFile.
ScanPIDFile(n) ==
    /\ rpc.phase = "scan"
    /\ n \in rpc.todo
    /\ LET pid == disk[n].pid
           rp == IF pid \in osAlive THEN [runningProcesses EXCEPT ![n] = pid]
                 ELSE runningProcesses
       IN  /\ runningProcesses' = rp
           /\ disk' = IF pid \in osAlive THEN disk ELSE [disk EXCEPT ![n].pid = 0]
           /\ rpc' = IF rpc.todo = {n} THEN ScanDone(rp)
                     ELSE [rpc EXCEPT !.todo = @ \ {n}]
    /\ UNCHANGED <<osAlive, started, boot, recovered>>
    /\ UNCHANGED outsideRecovery

\* LoadRunningProcesses, one iteration of its loop over the running names.
LoadProcess(n) ==
    /\ rpc.phase = "load"
    /\ n \in rpc.todo
    /\ recovered' =
          IF disk[n].gem = NoFile THEN recovered
          ELSE [recovered EXCEPT ![n] =
                  RecoveredProcess(LoadProcessConfig(disk[n].gem.yaml), runningProcesses[n])]
    /\ rpc' = IF rpc.todo = {n} THEN [phase |-> "done", todo |-> {}]
              ELSE [rpc EXCEPT !.todo = @ \ {n}]
    /\ UNCHANGED <<disk, osAlive, started, boot, runningProcesses>>
    /\ UNCHANGED outsideRecovery

\* A process found in a PID file terminates.
RecoveredExit(pid) ==
    /\ pid \in osAlive
    /\ osAlive' = osAlive \ {pid}
    /\ UNCHANGED <<disk, started, boot, runningProcesses, recovered, rpc>>
    /\ UNCHANGED outsideRecovery

\* proc.Cmd.Process.Kill() / Signal(SIGTERM) of StopProcess: with a nil Cmd
\* the selector dereferences a nil pointer and the goroutine panics.
StopHandle(proc) == IF proc.Cmd THEN "signalled" ELSE "panic"

\* StopProcess(name, force) on a record of the registry, once
\* LoadRunningProcesses has returned and the manager takes calls.
RecoveredStop(n, force) ==
    /\ rpc.phase = "done"
    /\ recovered[n] # NoRecord
    /\ recovered[n].Status = "running"
    /\ IF StopHandle(recovered[n]) = "panic"
       THEN /\ rpc' = [phase |-> "panic", todo |-> {}]
            /\ UNCHANGED <<osAlive, recovered>>
       ELSE /\ recovered' = [recovered EXCEPT ![n].Status = "stopped"]
            /\ osAlive' = IF force THEN osAlive \ {recovered[n].PID} ELSE osAlive
            /\ UNCHANGED rpc
    /\ UNCHANGED <<disk, started, boot, runningProcesses>>
    /\ UNCHANGED outsideRecovery

RecoveryNext ==
    \/ \E n \in RecNames : ScanPIDFile(n)
    \/ \E n \in RecNames : LoadProcess(n)
    \/ \E n \in RecNames : RecoveredExit(PidOf(n))

RecoverySpec == RecoveryInit /\ [][RecoveryNext]_vars

\* LoadRunningProcesses runs to its end; nothing forces a process to exit.
RecoveryFairness ==
    /\ WF_vars(\E n \in RecNames : ScanPIDFile(n))
    /\ WF_vars(\E n \in RecNames : LoadProcess(n))

RecoveryFairSpec == RecoverySpec /\ RecoveryFairness

\* Recovery followed by calls of StopProcess on the recovered records.
RecoveryStopNext ==
    \/ RecoveryNext
    \/ \E n \in RecNames, force \in BOOLEAN : RecoveredStop(n, force)

RecoveryStopSpec == RecoveryInit /\ [][RecoveryStopNext]_vars

\* ====================================================================== claims
Objects == 1..Len(heap)
Policy(i) == heap[i].Config.Restart
Cap(i) == heap[i].Config.MaxRestarts
Registered(i) == \E n \in Names : processes[n] = i
StartReturned(i) == last.op = "StartProcess" /\ last.err = "" /\ last.proc = i
StopReturned(i) == last.op = "StopProcess" /\ last.err = "" /\ last.proc = i

\* C1: once StopProcess has returned nil on an object (always before its monitor
\* observes the exit), the monitor of that object never takes the restart branch
\* and no object is ever spawned by that monitor.
C1_StopIsTerminal ==
    \A i \in Objects :
        stops[i] > 0 => /\ mon[i] # "sleep"
                        /\ \A j \in Objects : hist[j].from # i

\* C2: with maxRestarts = M > 0, the spawns of one lineage (one StartProcess call
\* and the respawns by the monitors that follow it) number at most M + 1.
C2_RestartCap ==
    \A i \in Objects : Cap(i) > 0 => hist[i].gen <= Cap(i) + 1

\* C3: a StartProcess call on a cluster descriptor does not block: it is never
\* inside startClusterProcess waiting for the registry lock it holds itself.
C3_ClusterStartReturns ==
    \A c \in Clients : pc[c].op = "startClusterProcess" => mutex # c

\* C4: when StartProcess returns a record for a single descriptor, the record has
\* Status "running", PID > 0 and Restarts 0, GetProcess(name) is that record and
\* ListProcesses holds it exactly once.
C4_HappyStart ==
    \A i \in Objects :
        StartReturned(i) =>
            /\ heap[i].Status = "running"
            /\ heap[i].PID > 0
            /\ heap[i].Restarts = 0
            /\ GetProcess(last.name) = i
            /\ Cardinality({k \in 1..Len(ListProcesses) : ListProcesses[k] = i}) = 1

\* C4 witness: the first StartProcess of the run (the name was absent) returned
\* a record.
C4_Witness == Len(heap) = 1 /\ StartReturned(1)

\* C5: after StopProcess returned nil for a single process and its child has
\* exited, the name eventually is not found in the registry.
C5_StopRemoves ==
    \A n \in Names :
        (\E i \in Objects : heap[i].Config.Name = n /\ stops[i] > 0 /\ Exited(i)
                            /\ processes[n] = i)
            ~> ~Exists(n)

\* C6: the running record registered for a name carries the number of automatic
\* restarts of its lineage: Restarts = (spawns of the lineage) - 1.
C6_RestartCountSurvives ==
    \A n \in Names :
        (Exists(n) /\ Proc(n).Status = "running")
            => Proc(n).Restarts = hist[processes[n]].gen - 1

\* The decision the monitor is to take on an exit, as the claim states it.
Decision(procConfig, failed, restarts) ==
    /\ \/ procConfig.Restart = "always"
       \/ procConfig.Restart = "on-failure" /\ failed
    /\ procConfig.MaxRestarts = 0 \/ restarts < procConfig.MaxRestarts

\* C7: the step in which a monitor observes the exit of a child that was not
\* stopped takes the restart branch iff the policy asks for a restart (always,
\* or on-failure with a failed exit) and the cap allows it; under policy never
\* the monitor stays out of the restart branch, Restarts stays 0 and the
\* lineage has one spawn.
C7_RestartDecision ==
    [][\A i \in Objects :
          /\ (mon[i] = "wait" /\ mon'[i] # "wait" /\ stops[i] = 0)
                => (mon'[i] = "sleep"
                      <=> Decision(heap[i].Config, child[i] = "fail", heap[i].Restarts))
          /\ Policy(i) \notin {"always", "on-failure"}
                => /\ mon'[i] # "sleep"
                   /\ heap'[i].Restarts = 0
                   /\ hist'[i].gen = 1]_vars

\* C7 witness: under on-failure the monitors of two unstopped children have
\* decided, one to restart (its child failed) and one not to (its child exited zero).
C7_Witness ==
    /\ \E i \in Objects : Policy(i) = "on-failure" /\ stops[i] = 0 /\ mon[i] = "sleep"
    /\ \E j \in Objects : Policy(j) = "on-failure" /\ stops[j] = 0 /\ mon[j] = "cleanup"

\* C8: under on-failure with maxRestarts = M > 0, once the monitor has observed
\* the failed exit of spawn M + 1 there is no further respawn: the record stays
\* registered with Status "failed" and Restarts = M.
C8_RestartExhaustion ==
    \A i \in Objects :
        (/\ Policy(i) = "on-failure" /\ Cap(i) > 0
         /\ hist[i].gen = Cap(i) + 1
         /\ stops[i] = 0
         /\ mon[i] # "wait")
            => /\ mon[i] # "sleep"
               /\ Registered(i)
               /\ heap[i].Status = "failed"
               /\ heap[i].Restarts = Cap(i)

\* C9: the record created by RestartProcess stays registered, running and with
\* Restarts 0, for as long as its child is alive and no stop was issued on it.
C9_RestartedRecordStays ==
    \A i \in Objects :
        (hist[i].origin = "restart" /\ child[i] = "alive" /\ stops[i] = 0)
            => /\ processes[heap[i].Config.Name] = i
               /\ heap[i].Status = "running"
               /\ heap[i].Restarts = 0

\* The monitor of object i has taken no branch yet and no stop was signalled:
\* the record is in a non-terminal state.
NonTerminal(i) ==
    \/ heap[i].Status = "running"
    \/ stops[i] > 0 /\ ~waited[i]
    \/ mon[i] = "sleep"

\* C17: a StartProcess call that returns an error leaves the registry map as it
\* was, writes no PID file, allocates no object and starts no monitor.
C17_FailedStartNoTrace ==
    [][(last'.op = "StartProcess" /\ last'.err # "")
          => /\ processes' = processes
             /\ pidFile' = pidFile
             /\ heap' = heap
             /\ mon' = mon]_vars

\* C17 witness: a StartProcess on a single descriptor returned a start error
\* while a record and its PID file existed.
C17_Witness ==
    /\ last.op = "StartProcess" /\ last.err = "start failed"
    /\ \E n \in Names : Exists(n) /\ pidFile[n] # 0

\* C18: a StartProcess call on a name whose record is non-terminal (running, stop
\* signalled but exit not observed, or awaiting an automatic restart) returns an
\* error, spawns nothing and leaves the registry unchanged.
C18_AlreadyExists ==
    [][\A n \in Names :
          (/\ Exists(n) /\ NonTerminal(processes[n])
           /\ last'.op = "StartProcess" /\ last'.name = n)
             => /\ last'.err # ""
                /\ heap' = heap
                /\ processes' = processes]_vars

\* C19: a StopProcess call on a name whose monitor has decided to restart and has
\* not respawned yet returns nil, and the monitor of that object spawns nothing
\* afterwards.
C19_StopInRestartWindow ==
    [][\A n \in Names :
          (/\ Exists(n) /\ mon[processes[n]] = "sleep"
           /\ last'.op = "StopProcess" /\ last'.name = n)
             => /\ last'.err = ""
                /\ mon'[processes[n]] # "sleep"]_vars

\* C20: a record whose monitor has ended after a respawn that failed is not left
\* registered in a non-failed state: a registered object whose monitor is done
\* (and on which no stop was issued) has Status "failed".
C20_FailedRespawn ==
    \A i \in Objects :
        (Registered(i) /\ mon[i] = "done" /\ stops[i] = 0)
            => heap[i].Status = "failed"

\* No start, stop, restart or monitor step is in progress for name n: no caller
\* is inside a call on n, no StopProcess goroutine is pending, and every monitor
\* either has ended or waits on a live child.
Quiescent(n) ==
    /\ \A c \in Clients : pc[c] = Idle \/ pc[c].name # n
    /\ \A i \in Objects :
          heap[i].Config.Name = n
            => /\ waiter[i].wait = 0 /\ waiter[i].unreg = 0
               /\ mon[i] = "done" \/ (mon[i] = "wait" /\ child[i] = "alive")

\* C12: whenever nothing is in progress for a name, its PID file exists iff the
\* registry holds a record for the name with Status "running".
C12_PIDFileAgreement ==
    \A n \in Names :
        Quiescent(n) => (pidFile[n] # 0 <=> (Exists(n) /\ Proc(n).Status = "running"))

\* C13: once StopProcess with force has returned nil for a name, and no caller
\* has started the name again since, in every state in which the name is not in
\* the registry its PID file does not exist.
C13_NoPIDFileAfterStop ==
    \A n \in Names :
        ((\E i \in forced :
             /\ heap[i].Config.Name = n
             /\ \A j \in Objects : j > i => hist[j].origin = "monitor")
         /\ ~Exists(n)) => pidFile[n] = 0

\* C14: a record with Status "running" whose process has exited is eventually
\* no longer reported running; checked on the records LoadRunningProcesses builds.
C14_RunningImpliesAlive ==
    \A n \in RecNames :
        (recovered[n].Status = "running" /\ recovered[n].PID \notin osAlive)
            ~> (recovered[n].Status # "running")

\* C15: when LoadRunningProcesses has returned: a name whose PID file held a PID
\* that is alive and whose descriptor file exists has a record with Status
\* "running" and the PID of the file; every record has the PID of its file; a
\* name whose PID file held a dead PID has no PID file and no record.
C15_Recovery ==
    rpc.phase = "done" =>
        \A n \in RecNames :
            /\ (boot.pid[n] # 0 /\ boot.pid[n] \in osAlive /\ disk[n].gem # NoFile)
                  => recovered[n].Status = "running"
            /\ recovered[n] # NoRecord
                  => /\ recovered[n].Status = "running"
                     /\ recovered[n].PID = boot.pid[n]
                     /\ disk[n].pid = boot.pid[n]
            /\ (boot.pid[n] # 0 /\ boot.pid[n] \notin boot.alive)
                  => disk[n].pid = 0 /\ recovered[n] = NoRecord

\* C15 witness: recovery has returned with one name recovered from a live PID
\* and the stale PID file of another name deleted.
C15_Witness ==
    /\ rpc.phase = "done"
    /\ \E n \in RecNames : boot.pid[n] \in osAlive /\ recovered[n] # NoRecord
    /\ \E n \in RecNames : boot.pid[n] # 0 /\ boot.pid[n] \notin boot.alive /\ disk[n].pid = 0

\* C16: the descriptor of a recovered record equals, field by field, the
\* descriptor that was given to StartProcess and persisted.
C16_DescriptorRoundTrip ==
    \A n \in RecNames : recovered[n] # NoRecord => recovered[n].Config = started[n]

\* C21: from the return of a successful StopProcess until the record leaves the
\* registry, the Status of the record is "stopping".
C21_StopMarksStopping ==
    \A i \in Objects : (stops[i] > 0 /\ Registered(i)) => heap[i].Status = "stopping"

\* C22: whenever the registry exposes a record with Status "running", the PID
\* file of its name holds the PID of that record.
C22_PersistenceBeforeVisibility ==
    \A n \in Names :
        (Exists(n) /\ Proc(n).Status = "running") => pidFile[n] = Proc(n).PID

MaxShellObjs == 3      \* ManagedProcess objects created in a run
MaxPtys == 3           \* PTY masters allocated in a run
ShellNames == {"a", "b"}

\* The ManagedProcess object StartProcess registers (155-162); its PID is
\* the object's number here, PTY 0 is the nil handle.
ShellTarget(i) ==
    [PID |-> i, Status |-> "running", Restarts |-> 0, LogFiles |-> "open",
     ClusterProcs |-> <<>>, PTY |-> 0]

\* Mutant of ShellRefused: the status of the record is not looked at.
ShellRefusedClusterOnly(proc) ==
    IF Len(proc.ClusterProcs) > 0 THEN "cluster master" ELSE ""

\* The two refusals of AttachShell, "" when the call goes on to pty.Start.
ShellRefused(proc) ==
    IF Len(proc.ClusterProcs) > 0 THEN "cluster master"
    ELSE IF proc.Status # "running" THEN "not running"
    ELSE ""

\* Mutant of Detached: detaching the shell also marks the record stopped.
DetachedAndStopped(proc) == [proc EXCEPT !.PTY = 0, !.Status = "stopped"]

\* proc.PTY = nil after proc.PTY.Close().
Detached(proc) == [proc EXCEPT !.PTY = 0]

ShellInit ==
    /\ NoEngine /\ NoRecovery
    /\ NoLogs /\ NoApi /\ NoScripts /\ NoService /\ NoLocks /\ NoClock /\ NoConfig
    /\ shellProcs = [n \in ShellNames |-> 0]
    /\ shellHeap = <<>>
    /\ shellPc = [c \in Clients |-> Idle]
    /\ ptys = {}
    /\ ptyCount = 0
    /\ signals = {}
    /\ shellLast = NoCall

\* StartProcess registers a running record under a free name.
RegisterTarget(n) ==
    /\ shellProcs[n] = 0
    /\ Len(shellHeap) < MaxShellObjs
    /\ shellHeap' = Append(shellHeap, ShellTarget(Len(shellHeap) + 1))
    /\ shellProcs' = [shellProcs EXCEPT ![n] = Len(shellHeap) + 1]
    /\ shellLast' = NoCall
    /\ UNCHANGED <<shellPc, ptys, ptyCount, signals>>
    /\ UNCHANGED outsideShell

\* StopProcess signals the child of a registered record and marks the record.
StopTarget(n) ==
    /\ shellProcs[n] # 0
    /\ shellHeap[shellProcs[n]].Status = "running"
    /\ signals' = signals \cup {shellHeap[shellProcs[n]].PID}
    /\ shellHeap' = [shellHeap EXCEPT ![shellProcs[n]].Status = "stopped"]
    /\ shellLast' = NoCall
    /\ UNCHANGED <<shellProcs, shellPc, ptys, ptyCount>>
    /\ UNCHANGED outsideShell

\* The goroutine of StopProcess removes the stopped record from the registry.
UnregisterTarget(n) ==
    /\ shellProcs[n] # 0
    /\ shellHeap[shellProcs[n]].Status = "stopped"
    /\ shellProcs' = [shellProcs EXCEPT ![n] = 0]
    /\ shellLast' = NoCall
    /\ UNCHANGED <<shellHeap, shellPc, ptys, ptyCount, signals>>
    /\ UNCHANGED outsideShell

\* AttachShell up to pty.Start: the lookup, the two refusals, the new PTY.
AttachShell(c, n) ==
    /\ shellPc[c] = Idle
    /\ ptyCount < MaxPtys
    /\ LET i == shellProcs[n]
           ret(e) == [op |-> "AttachShell", client |-> c, name |-> n, proc |-> i,
                      err |-> e, pty |-> 0]
       IN \/ /\ i = 0
             /\ shellLast' = ret("not found")
             /\ UNCHANGED <<shellPc, ptys, ptyCount>>
          \/ /\ i # 0
             /\ ShellRefused(shellHeap[i]) # ""
             /\ shellLast' = ret(ShellRefused(shellHeap[i]))
             /\ UNCHANGED <<shellPc, ptys, ptyCount>>
          \/ /\ i # 0
             /\ ShellRefused(shellHeap[i]) = ""
             /\ \/ /\ shellLast' = ret("pty start failed")
                   /\ UNCHANGED <<shellPc, ptys, ptyCount>>
                \/ /\ ptyCount' = ptyCount + 1
                   /\ ptys' = ptys \cup {ptyCount + 1}
                   /\ shellPc' = [shellPc EXCEPT ![c] =
                          [op |-> "AttachShell", name |-> n, proc |-> i,
                           ptmx |-> ptyCount + 1]]
                   /\ shellLast' = NoCall
    /\ UNCHANGED <<shellProcs, shellHeap, signals>>
    /\ UNCHANGED outsideShell

\* AttachShell from proc.mu.Lock() on: the handle is stored and returned.
AttachStore(c) ==
    /\ shellPc[c].op = "AttachShell"
    /\ shellHeap' = [shellHeap EXCEPT ![shellPc[c].proc].PTY = shellPc[c].ptmx]
    /\ shellLast' = [op |-> "AttachShell", client |-> c, name |-> shellPc[c].name,
                     proc |-> shellPc[c].proc, err |-> "", pty |-> shellPc[c].ptmx]
    /\ shellPc' = [shellPc EXCEPT ![c] = Idle]
    /\ UNCHANGED <<shellProcs, ptys, ptyCount, signals>>
    /\ UNCHANGED outsideShell

\* DetachShell: closes and clears the handle of the record, if it has one.
DetachShell(c, n) ==
    /\ shellPc[c] = Idle
    /\ LET i == shellProcs[n]
           ret(e, closed) == [op |-> "DetachShell", client |-> c, name |-> n,
                              proc |-> i, err |-> e, pty |-> closed]
       IN IF i = 0
          THEN /\ shellLast' = ret("not found", 0)
               /\ UNCHANGED <<shellHeap, ptys>>
          ELSE /\ shellLast' = ret("", shellHeap[i].PTY)
               /\ IF shellHeap[i].PTY # 0
                  THEN /\ ptys' = ptys \ {shellHeap[i].PTY}
                       /\ shellHeap' = [shellHeap EXCEPT ![i] = Detached(shellHeap[i])]
                  ELSE UNCHANGED <<shellHeap, ptys>>
    /\ UNCHANGED <<shellProcs, shellPc, ptyCount, signals>>
    /\ UNCHANGED outsideShell

ShellNext ==
    \/ \E n \in ShellNames : RegisterTarget(n)
    \/ \E n \in ShellNames : StopTarget(n)
    \/ \E n \in ShellNames : UnregisterTarget(n)
    \/ \E c \in Clients, n \in ShellNames : AttachShell(c, n)
    \/ \E c \in Clients : AttachStore(c)
    \/ \E c \in Clients, n \in ShellNames : DetachShell(c, n)

ShellSpec == ShellInit /\ [][ShellNext]_vars

\* A step of AttachShell or DetachShell.
ShellStep == shellPc' # shellPc \/ shellLast'.op # "none"

C25_ShellFrame ==
    [][ShellStep =>
        /\ shellProcs' = shellProcs
        /\ signals' = signals
        /\ DOMAIN shellHeap' = DOMAIN shellHeap
        /\ \A i \in DOMAIN shellHeap :
               shellHeap'[i] = [shellHeap[i] EXCEPT !.PTY = shellHeap'[i].PTY]
        /\ (shellLast'.op = "DetachShell" /\ shellLast'.err = "") =>
               shellHeap'[shellLast'.proc].PTY = 0
      ]_vars

\* DetachShell closed the PTY of a running record.
C25_Witness ==
    /\ shellLast.op = "DetachShell"
    /\ shellLast.err = ""
    /\ shellLast.pty # 0
    /\ shellHeap[shellLast.proc].Status = "running"
    /\ shellHeap[shellLast.proc].PTY = 0

(***************************************************************************)
(* GetLogs and readLastLines on the log files of a single process.  A line *)
(* is short or LONG: longer than the largest token bufio.Scanner accepts   *)
(* with its default buffer, on which Scan() stops and Err() is non-nil.    *)
(***************************************************************************)
MaxLines == 3          \* lines of a log file
LogLines == {"x", "y", "LONG"}
Missing == <<"missing">>      \* no file at the path; no log file holds this line
LogContents == UNION {[1..k -> LogLines] : k \in 0..MaxLines}
Streams == {"stdout", "stderr", "both"}
LineCounts == -1..(MaxLines + 1)

\* The lines scanner.Scan() delivers: those before the first LONG line.
RECURSIVE Scanned(_)
Scanned(file) ==
    IF file = <<>> \/ Head(file) = "LONG" THEN <<>>
    ELSE <<Head(file)>> \o Scanned(Tail(file))

\* scanner.Err() after the loop.
ScanErr(file) == IF \E k \in DOMAIN file : file[k] = "LONG" THEN "token too long" ELSE ""

\* lines[len(lines)-n:]
LastLines(lines, n) == SubSeq(lines, Len(lines) - n + 1, Len(lines))

readLastLines(file, n) ==
    IF file = Missing THEN [lines |-> <<>>, err |-> "open", opened |-> FALSE]
    ELSE IF n <= 0 THEN [lines |-> Scanned(file), err |-> ScanErr(file), opened |-> TRUE]
    ELSE IF ScanErr(file) # "" THEN [lines |-> <<>>, err |-> ScanErr(file), opened |-> TRUE]
    ELSE IF Len(Scanned(file)) <= n THEN [lines |-> Scanned(file), err |-> "", opened |-> TRUE]
    ELSE [lines |-> LastLines(Scanned(file), n), err |-> "", opened |-> TRUE]

LogInit ==
    /\ NoEngine /\ NoRecovery
    /\ NoShell /\ NoApi /\ NoScripts /\ NoService /\ NoLocks /\ NoClock /\ NoConfig
    /\ logFiles \in [{"stdout", "stderr"} -> LogContents \cup {Missing}]
    /\ logCall = NoCall

\* GetLogs(name, stream, n) for a registered record without workers.
GetLogs(stream, n) ==
    /\ logCall' =
         IF stream \in {"stdout", "stderr"}
         THEN [op |-> "GetLogs", stream |-> stream, n |-> n] @@ readLastLines(logFiles[stream], n)
         ELSE [op |-> "GetLogs", stream |-> stream, n |-> n,
               lines |-> <<>>, err |-> "invalid stream", opened |-> FALSE]
    /\ UNCHANGED logFiles
    /\ UNCHANGED outsideLogs

LogNext == \E stream \in Streams, n \in LineCounts : GetLogs(stream, n)

LogSpec == LogInit /\ [][LogNext]_vars

Min(a, b) == IF a <= b THEN a ELSE b

\* C26: GetLogs on stdout or stderr returns, without error, the last
\* min(n, L) of the L lines of the file in file order when n > 0 and all L
\* lines when n <= 0; a missing file gives an error, and any other stream
\* gives an error and no file is opened.
C26_LogTail ==
    logCall.op = "GetLogs" =>
        IF logCall.stream \in {"stdout", "stderr"}
        THEN LET file == logFiles[logCall.stream] IN
             IF file = Missing THEN logCall.err # ""
             ELSE /\ logCall.err = ""
                  /\ logCall.lines =
                         IF logCall.n > 0
                         THEN LastLines(file, Min(logCall.n, Len(file)))
                         ELSE file
        ELSE logCall.err # "" /\ ~logCall.opened

\* The same on files all of whose lines bufio.Scanner accepts.
C26_ShortLines ==
    (logCall.op = "GetLogs" /\ logCall.stream \in {"stdout", "stderr"}
       /\ logFiles[logCall.stream] # Missing
       /\ \E k \in DOMAIN logFiles[logCall.stream] : logFiles[logCall.stream][k] = "LONG")
    \/ C26_LogTail

(***************************************************************************)
(* GET /processes: listProcesses filters the records of ListProcesses by   *)
(* isClusterWorker.  A name is a sequence of pieces: a letter, a digit or  *)
(* the eight characters "-worker-".                                        *)
(***************************************************************************)
MaxPieces == 3         \* pieces of a process name
MaxRecords == 2        \* records in the registry
Pieces == {"a", "0", "-worker-"}
PieceLen(p) == IF p = "-worker-" THEN 8 ELSE 1
ApiNames == UNION {[1..k -> Pieces] : k \in 1..MaxPieces}

\* len(name)
RECURSIVE NameLen(_)
NameLen(name) == IF name = <<>> THEN 0 ELSE PieceLen(Head(name)) + NameLen(Tail(name))

\* len(name) > 8 && name[len(name)-8:] == "-worker-"
isClusterWorker(name) == NameLen(name) > 8 /\ name[Len(name)] = "-worker-"

ApiInit ==
    /\ NoEngine /\ NoRecovery
    /\ NoShell /\ NoLogs /\ NoScripts /\ NoService /\ NoLocks /\ NoClock /\ NoConfig
    /\ apiProcesses = {}
    /\ apiResponse = NoCall

\* The handler of GET /processes.
listProcesses ==
    /\ apiResponse' = [op |-> "listProcesses",
                       names |-> {name \in apiProcesses : ~isClusterWorker(name)}]
    /\ UNCHANGED apiProcesses
    /\ UNCHANGED outsideApi

\* StartProcess registers one more record; StopProcess removes one.
ApiStartProcess(name) ==
    /\ name \notin apiProcesses
    /\ Cardinality(apiProcesses) < MaxRecords
    /\ apiProcesses' = apiProcesses \cup {name}
    /\ apiResponse' = NoCall
    /\ UNCHANGED outsideApi

ApiStopProcess(name) ==
    /\ name \in apiProcesses
    /\ apiProcesses' = apiProcesses \ {name}
    /\ apiResponse' = NoCall
    /\ UNCHANGED outsideApi

ApiNext ==
    \/ listProcesses
    \/ \E name \in ApiNames : ApiStartProcess(name)
    \/ \E name \in ApiNames : ApiStopProcess(name)

ApiSpec == ApiInit /\ [][ApiNext]_vars

\* The name ends in "-worker-" followed by one or more digits.
RECURSIVE AllDigits(_)
AllDigits(name) == name = <<>> \/ (Head(name) = "0" /\ AllDigits(Tail(name)))
WorkerSuffix(name) ==
    \E k \in 1..(Len(name) - 1) :
        name[k] = "-worker-" /\ AllDigits(SubSeq(name, k + 1, Len(name)))

\* C27: the response of GET /processes holds exactly the registered
\* records whose name does not end in "-worker-" followed by digits.
C27_WorkerFiltering ==
    apiResponse.op = "listProcesses" =>
        apiResponse.names = {name \in apiProcesses : ~WorkerSuffix(name)}

(***************************************************************************)
(* ScriptService: the persisted <name>.json files and the entries of the   *)
(* cron scheduler of one service object.                                   *)
(***************************************************************************)
MaxEntries == 2        \* cron entries registered for one script name
ScriptNames == {"s", "t"}
ScriptFiles == {"f.sh", "absent.sh"}           \* f.sh exists, absent.sh does not
Schedules == {"", "@every 1m", "not a cron"}   \* none, well-formed, malformed
ScriptProcesses == {"", "p", "ghost"}          \* p is known to ProcessService, ghost is not
NoScript == [File |-> ""]

Script(file, schedule, process) == [File |-> file, Schedule |-> schedule, Process |-> process]

\* os.Stat(file) finds the file.
FileExists(file) == file = "f.sh"
\* NewProcessService().Get(process) finds the process.
ProcessKnown(process) == process = "p"
\* cronScheduler.AddFunc accepts the expression.
ValidSchedule(schedule) == schedule = "@every 1m"

\* s.Get(name): the script is found.
ScriptGet(name) == scripts[name] # NoScript

\* The checks of Add before it saves anything: the error, or "".
AddRejected(name, file, process) ==
    IF ScriptGet(name) THEN "already exists"
    ELSE IF ~FileExists(file) THEN "file does not exist"
    ELSE IF process # "" /\ ~ProcessKnown(process) THEN "process does not exist"
    ELSE ""

\* scheduleScript: the error, or "" when the entry was added or none was asked for.
scheduleScript(schedule) ==
    IF schedule = "" \/ ValidSchedule(schedule) THEN "" ELSE "failed to schedule script"

ScriptInit ==
    /\ NoEngine /\ NoRecovery
    /\ NoShell /\ NoLogs /\ NoApi /\ NoService /\ NoLocks /\ NoClock /\ NoConfig
    /\ scripts = [n \in ScriptNames |-> NoScript]
    /\ cronEntries = [n \in ScriptNames |-> 0]
    /\ scriptLast = NoCall

\* Add: the checks, saveScript, then scheduleScript.
Add(name, file, schedule, process) ==
    /\ cronEntries[name] < MaxEntries
    /\ IF AddRejected(name, file, process) # ""
       THEN /\ scriptLast' = [op |-> "Add", name |-> name,
                              err |-> AddRejected(name, file, process)]
            /\ UNCHANGED <<scripts, cronEntries>>
       ELSE /\ scripts' = [scripts EXCEPT ![name] = Script(file, schedule, process)]
            /\ cronEntries' = IF ValidSchedule(schedule)
                              THEN [cronEntries EXCEPT ![name] = @ + 1]
                              ELSE cronEntries
            /\ scriptLast' = [op |-> "Add", name |-> name, err |-> scheduleScript(schedule)]
    /\ UNCHANGED outsideScripts

\* Remove: deletes the file of the script; the scheduler is not touched.
Remove(name) ==
    /\ IF ScriptGet(name)
       THEN /\ scripts' = [scripts EXCEPT ![name] = NoScript]
            /\ scriptLast' = [op |-> "Remove", name |-> name, err |-> ""]
       ELSE /\ scriptLast' = [op |-> "Remove", name |-> name, err |-> "not found"]
            /\ UNCHANGED scripts
    /\ UNCHANGED cronEntries
    /\ UNCHANGED outsideScripts

\* A new service object: a new scheduler, loaded with the persisted scripts.
NewScriptService ==
    /\ cronEntries' = [n \in ScriptNames |->
                         IF ScriptGet(n) /\ ValidSchedule(scripts[n].Schedule) THEN 1 ELSE 0]
    /\ scriptLast' = NoCall
    /\ UNCHANGED scripts
    /\ UNCHANGED outsideScripts

ScriptNext ==
    \/ \E name \in ScriptNames, file \in ScriptFiles, schedule \in Schedules,
          process \in ScriptProcesses : Add(name, file, schedule, process)
    \/ \E name \in ScriptNames : Remove(name)
    \/ NewScriptService

ScriptSpec == ScriptInit /\ [][ScriptNext]_vars

\* C28: when Add returns an error, the persisted scripts are the ones there
\* were before the call and no cron entry was registered.
C28_RejectedAddNoTrace ==
    [][(scriptLast'.op = "Add" /\ scriptLast'.err # "") =>
           (scripts' = scripts /\ cronEntries' = cronEntries)]_vars

(***************************************************************************)
(* The file-based ProcessService: one process, its persisted record, its   *)
(* stdout log and the goroutine that startProcess leaves behind.           *)
(***************************************************************************)
MaxLog == 3            \* lines of output the child writes between two starts
ServiceMaxRestarts == 0..2

\* The Process object Start builds, after startProcess made it running.
Process(restart, maxRestarts, pid) ==
    [Status |-> "running", Pid |-> pid, Restart |-> restart,
     MaxRestarts |-> maxRestarts, Restarts |-> 0]

\* os.Create on the stdout log: the file is there and empty.
Created(log) == <<>>

\* Mutant of WillRestart: the cap is compared with <=.
WillRestartInclusive(process) == process.Restart /\ process.Restarts <= process.MaxRestarts

\* process.Restart && process.Restarts < process.MaxRestarts
WillRestart(process) == process.Restart /\ process.Restarts < process.MaxRestarts

Monitoring(process, phase) == [op |-> "monitor", process |-> process, phase |-> phase]

ServiceInit ==
    /\ NoEngine /\ NoRecovery
    /\ NoShell /\ NoLogs /\ NoApi /\ NoScripts /\ NoLocks /\ NoClock /\ NoConfig
    /\ svc = NoRecord
    /\ svcLog = <<>>
    /\ svcRun = NoCall

\* Start(name, ...) on a name without a record: saveProcess, startProcess.
ServiceStart(restart, maxRestarts) ==
    /\ svc = NoRecord
    /\ svcRun = NoCall
    /\ svcLog' = Created(svcLog)
    /\ \/ /\ svc' = Process(restart, maxRestarts, 1)
          /\ svcRun' = Monitoring(Process(restart, maxRestarts, 1), "wait")
       \/ /\ svc' = NoRecord            \* cmd.Start failed: removeProcess
          /\ svcRun' = NoCall
    /\ UNCHANGED outsideService

\* The child writes a line to its stdout.
ServiceOutput ==
    /\ svcRun.op = "monitor" /\ svcRun.phase = "wait"
    /\ Len(svcLog) < MaxLog
    /\ svcLog' = Append(svcLog, "out")
    /\ UNCHANGED <<svc, svcRun>>
    /\ UNCHANGED outsideService

\* The goroutine after cmd.Wait(), up to the sleep before the restart.
ServiceExit ==
    /\ svcRun.op = "monitor" /\ svcRun.phase = "wait"
    /\ IF WillRestart(svcRun.process)
       THEN LET process == [svcRun.process EXCEPT !.Restarts = @ + 1,
                                                  !.Status = "restarting"]
            IN /\ svc' = process
               /\ svcLog' = Append(svcLog, "note")
               /\ svcRun' = Monitoring(process, "sleep")
       ELSE /\ svc' = [svcRun.process EXCEPT !.Status = "stopped"]
            /\ svcRun' = NoCall
            /\ UNCHANGED svcLog
    /\ UNCHANGED outsideService

\* The goroutine after the sleep: s.startProcess(process), its error dropped.
ServiceRespawn ==
    /\ svcRun.op = "monitor" /\ svcRun.phase = "sleep"
    /\ svcLog' = Created(svcLog)
    /\ \/ LET process == [svcRun.process EXCEPT !.Pid = @ + 1, !.Status = "running"]
          IN /\ svc' = process
             /\ svcRun' = Monitoring(process, "wait")
       \/ /\ svcRun' = NoCall           \* cmd.Start failed
          /\ UNCHANGED svc
    /\ UNCHANGED outsideService

\* Stop(name) on a running record: the signal, the saved status.
ServiceStop ==
    /\ svc # NoRecord
    /\ svc.Status = "running"
    /\ svc' = [svc EXCEPT !.Status = "stopped"]
    /\ UNCHANGED <<svcLog, svcRun>>
    /\ UNCHANGED outsideService

ServiceNext ==
    \/ \E restart \in BOOLEAN, maxRestarts \in ServiceMaxRestarts :
           ServiceStart(restart, maxRestarts)
    \/ ServiceOutput
    \/ ServiceExit
    \/ ServiceRespawn
    \/ ServiceStop

ServiceSpec == ServiceInit /\ [][ServiceNext]_vars

\* The number of restart notes in a log.
RECURSIVE Notes(_)
Notes(log) ==
    IF log = <<>> THEN 0
    ELSE (IF Head(log) = "note" THEN 1 ELSE 0) + Notes(Tail(log))

IsPrefix(a, b) == Len(a) <= Len(b) /\ SubSeq(b, 1, Len(a)) = a

\* C29: when the process runs again after its n-th automatic restart its
\* stdout log holds n restart notes, and no step removes a line from the
\* log: the log before a step is a prefix of the log after it.
C29_AppendOnlyLog ==
    /\ [](svcRun.op = "monitor" /\ svcRun.phase = "wait"
            => Notes(svcLog) = svcRun.process.Restarts)
    /\ [][IsPrefix(svcLog, svcLog')]_vars

(***************************************************************************)
(* The lock operations of the ProcessManager methods on pm.mutex ("pm")    *)
(* and on proc.mu of one record ("mu"), run by concurrent threads.  A      *)
(* method is the sequence of its lock operations in program order.         *)
(***************************************************************************)
LockThreads == {"t1", "t2"}

\* StartProcess of a single process: Lock and the deferred Unlock.
StartProcessLocks == << <<"Lock", "pm">>, <<"Unlock", "pm">> >>

\* StartProcess of a cluster: startClusterProcess calls StartProcess for the
\* first worker while the lock of the outer call is held.
startClusterProcessLocks == << <<"Lock", "pm">>, <<"Lock", "pm">> >>

\* StopProcess of a single process, up to its return.
StopProcessLocks ==
    << <<"Lock", "pm">>, <<"Unlock", "pm">>, <<"Lock", "mu">>, <<"Unlock", "mu">> >>

\* The goroutine of StopProcess.
StopGoroutineLocks == << <<"Lock", "pm">>, <<"Unlock", "pm">> >>

RestartProcessLocks ==
    << <<"RLock", "pm">>, <<"RUnlock", "pm">> >> \o StopProcessLocks \o StartProcessLocks

\* GetProcess.
GetProcessLocks == << <<"RLock", "pm">>, <<"RUnlock", "pm">> >>

AttachShellLocks == GetProcessLocks \o << <<"Lock", "mu">>, <<"Unlock", "mu">> >>

DetachShellLocks == GetProcessLocks \o << <<"Lock", "mu">>, <<"Unlock", "mu">> >>

\* Mutant of monitorProcessLocks: proc.mu is still held when StartProcess,
\* or the removal from the registry, takes pm.mutex.
monitorProcessLocksHeld(restart) ==
    IF restart
    THEN << <<"Lock", "mu">>, <<"Unlock", "mu">>, <<"Lock", "mu">> >>
         \o StartProcessLocks \o << <<"Unlock", "mu">> >>
    ELSE << <<"Lock", "mu">>, <<"Lock", "pm">>, <<"Unlock", "pm">>, <<"Unlock", "mu">> >>

\* monitorProcess, on the path that restarts and on the path that removes.
monitorProcessLocks(restart) ==
    IF restart
    THEN << <<"Lock", "mu">>, <<"Unlock", "mu">>, <<"Lock", "mu">>, <<"Unlock", "mu">> >>
         \o StartProcessLocks
    ELSE << <<"Lock", "mu">>, <<"Unlock", "mu">>, <<"Lock", "pm">>, <<"Unlock", "pm">> >>

Methods ==
    {StartProcessLocks, startClusterProcessLocks, StopProcessLocks, StopGoroutineLocks,
     RestartProcessLocks, AttachShellLocks, DetachShellLocks,
     monitorProcessLocks(TRUE), monitorProcessLocks(FALSE)}

LockInit ==
    /\ NoEngine /\ NoRecovery
    /\ NoShell /\ NoLogs /\ NoApi /\ NoScripts /\ NoService /\ NoClock /\ NoConfig
    /\ threads = [t \in LockThreads |-> <<>>]
    /\ held = [t \in LockThreads |-> <<>>]

\* Some thread holds the lock in one of the modes.
HeldBy(lock, modes) ==
    \E t \in LockThreads : \E k \in DOMAIN held[t] :
        held[t][k][1] = lock /\ held[t][k][2] \in modes

NextOp(t) == Head(threads[t])

\* A thread that runs nothing enters a method.
LockCall(t, method) ==
    /\ threads[t] = <<>>
    /\ held[t] = <<>>
    /\ threads' = [threads EXCEPT ![t] = method]
    /\ UNCHANGED held
    /\ UNCHANGED outsideLocks

\* sync.RWMutex.Lock: waits until nobody holds the lock.
Lock(t) ==
    /\ threads[t] # <<>>
    /\ NextOp(t)[1] = "Lock"
    /\ ~HeldBy(NextOp(t)[2], {"w", "r"})
    /\ held' = [held EXCEPT ![t] = Append(@, <<NextOp(t)[2], "w">>)]
    /\ threads' = [threads EXCEPT ![t] = Tail(@)]
    /\ UNCHANGED outsideLocks

\* sync.RWMutex.RLock: waits until no writer holds the lock.
RLock(t) ==
    /\ threads[t] # <<>>
    /\ NextOp(t)[1] = "RLock"
    /\ ~HeldBy(NextOp(t)[2], {"w"})
    /\ held' = [held EXCEPT ![t] = Append(@, <<NextOp(t)[2], "r">>)]
    /\ threads' = [threads EXCEPT ![t] = Tail(@)]
    /\ UNCHANGED outsideLocks

\* The held locks of a thread without its last hold of the given lock.
RECURSIVE Released(_, _)
Released(locks, lock) ==
    IF locks = <<>> THEN <<>>
    ELSE IF locks[Len(locks)][1] = lock THEN SubSeq(locks, 1, Len(locks) - 1)
    ELSE Append(Released(SubSeq(locks, 1, Len(locks) - 1), lock), locks[Len(locks)])

Unlock(t) ==
    /\ threads[t] # <<>>
    /\ NextOp(t)[1] = "Unlock"
    /\ held' = [held EXCEPT ![t] = Released(@, NextOp(t)[2])]
    /\ threads' = [threads EXCEPT ![t] = Tail(@)]
    /\ UNCHANGED outsideLocks

RUnlock(t) ==
    /\ threads[t] # <<>>
    /\ NextOp(t)[1] = "RUnlock"
    /\ held' = [held EXCEPT ![t] = Released(@, NextOp(t)[2])]
    /\ threads' = [threads EXCEPT ![t] = Tail(@)]
    /\ UNCHANGED outsideLocks

LockNext ==
    \/ \E t \in LockThreads, method \in Methods : LockCall(t, method)
    \/ \E t \in LockThreads : Lock(t)
    \/ \E t \in LockThreads : RLock(t)
    \/ \E t \in LockThreads : Unlock(t)
    \/ \E t \in LockThreads : RUnlock(t)

LockSpec == LockInit /\ [][LockNext]_vars

\* C30: a thread whose next operation is pm.mutex.Lock() holds no proc.mu,
\* and in the locks a thread holds no proc.mu comes before a pm.mutex.
C30_LockOrdering ==
    \A t \in LockThreads :
        /\ (threads[t] # <<>> /\ NextOp(t) = <<"Lock", "pm">>) =>
               \A k \in DOMAIN held[t] : held[t][k][1] # "mu"
        /\ \A j, k \in DOMAIN held[t] :
               (j < k /\ held[t][k][1] = "pm") => held[t][j][1] # "mu"

\* A thread holds proc.mu in a method that takes pm.mutex later on, while
\* another thread holds pm.mutex.
C30_Witness ==
    \E t, u \in LockThreads :
        /\ t # u
        /\ held[t] = << <<"mu", "w">> >>
        /\ \E k \in DOMAIN threads[t] : threads[t][k] = <<"Lock", "pm">>
        /\ held[u] = << <<"pm", "w">> >>

(***************************************************************************)
(* The monitor's wait before a restart, for a process started through the  *)
(* API (no defaults applied) with restart = "always" and no cap.  Time is  *)
(* counted in ticks; time.Sleep(d) returns once d ticks have passed.       *)
(***************************************************************************)
MaxTicks == 4          \* ticks of the clock in a run
MaxRespawns == 2       \* restarts by the monitor in a run
RestartDelays == 0..2  \* RestartDelay of the descriptor, in ticks

\* The record with the instants of its last spawn and of the exit observed.
TimedProcess(restartDelay, now) ==
    [Status |-> "running", RestartDelay |-> restartDelay, Restarts |-> 0,
     exitAt |-> 0, spawnAt |-> now]

\* time.Sleep(RestartDelay seconds) has returned.
Slept(proc, now) == now >= proc.exitAt + proc.RestartDelay

TimeInit ==
    /\ NoEngine /\ NoRecovery
    /\ NoShell /\ NoLogs /\ NoApi /\ NoScripts /\ NoService /\ NoLocks /\ NoConfig
    /\ clock = 0
    /\ timed = NoRecord

Tick ==
    /\ clock < MaxTicks
    /\ clock' = clock + 1
    /\ UNCHANGED timed
    /\ UNCHANGED outsideTime

\* StartProcess with the descriptor of a POST /processes request.
TimedStart(restartDelay) ==
    /\ timed = NoRecord
    /\ timed' = TimedProcess(restartDelay, clock)
    /\ UNCHANGED clock
    /\ UNCHANGED outsideTime

\* monitorProcess: Wait returns, the record is marked stopped.
TimedExit ==
    /\ timed # NoRecord
    /\ timed.Status = "running"
    /\ timed' = [timed EXCEPT !.Status = "stopped", !.exitAt = clock]
    /\ UNCHANGED clock
    /\ UNCHANGED outsideTime

\* monitorProcess after time.Sleep: Restarts++, StartProcess.
TimedRestart ==
    /\ timed # NoRecord
    /\ timed.Status = "stopped"
    /\ timed.Restarts < MaxRespawns
    /\ Slept(timed, clock)
    /\ timed' = [timed EXCEPT !.Status = "running", !.Restarts = @ + 1, !.spawnAt = clock]
    /\ UNCHANGED clock
    /\ UNCHANGED outsideTime

TimeNext ==
    \/ Tick
    \/ \E restartDelay \in RestartDelays : TimedStart(restartDelay)
    \/ TimedExit
    \/ TimedRestart

TimeSpec == TimeInit /\ [][TimeNext]_vars

\* C31: with RestartDelay = 0 and restart = "always", the replacement of a
\* child is spawned at a later tick than the one at which the monitor
\* observed the exit.
C31_RestartDelayFloor ==
    (timed # NoRecord /\ timed.RestartDelay = 0 /\ timed.Status = "running"
       /\ timed.Restarts > 0)
    => timed.spawnAt > timed.exitAt

(***************************************************************************)
(* LoadProcessConfig on a descriptor file written by hand, in which each   *)
(* of restart, max_restarts and restart_delay is present or absent.        *)
(***************************************************************************)
Absent == -1           \* stands for "the key is not in the file"; no key has this value
RestartsWritten == {"absent", "always", "never", "on-failure"}
MaxRestartsWritten == {Absent, 0, 1, 5}
RestartDelaysWritten == {Absent, 0, 1, 5}

\* The keys of a file with the given entries.
Yaml(restart, maxRestarts, restartDelay) ==
    LET keys == {"name"}
                \cup (IF restart # "absent" THEN {"restart"} ELSE {})
                \cup (IF maxRestarts # Absent THEN {"max_restarts"} ELSE {})
                \cup (IF restartDelay # Absent THEN {"restart_delay"} ELSE {})
    IN  [k \in keys |->
           CASE k = "name" -> "svc"
             [] k = "restart" -> restart
             [] k = "max_restarts" -> maxRestarts
             [] k = "restart_delay" -> restartDelay]

ConfigInit ==
    /\ NoEngine /\ NoRecovery
    /\ NoShell /\ NoLogs /\ NoApi /\ NoScripts /\ NoService /\ NoLocks /\ NoClock
    /\ gemFile \in { GemFile(Yaml(r, m, d)) :
                       r \in RestartsWritten, m \in MaxRestartsWritten,
                       d \in RestartDelaysWritten }
    /\ loaded = NoDesc

\* gem start --config <file>: the descriptor is loaded.
LoadConfig ==
    /\ loaded = NoDesc
    /\ loaded' = LoadProcessConfig(gemFile.yaml)
    /\ UNCHANGED gemFile
    /\ UNCHANGED outsideConfig

ConfigNext == LoadConfig

ConfigSpec == ConfigInit /\ [][ConfigNext]_vars

\* C32: LoadProcessConfig returns every field present in the file with the
\* value given there, an explicit 0 included, and gives an absent field its
\* default: restart = on-failure, max_restarts = 10, restart_delay = 3.
C32_DescriptorLoading ==
    loaded # NoDesc =>
        LET yaml == gemFile.yaml IN
        /\ loaded.Restart = IF "restart" \in DOMAIN yaml THEN yaml["restart"] ELSE "on-failure"
        /\ loaded.MaxRestarts =
               IF "max_restarts" \in DOMAIN yaml THEN yaml["max_restarts"] ELSE 10
        /\ loaded.RestartDelay =
               IF "restart_delay" \in DOMAIN yaml THEN yaml["restart_delay"] ELSE 3

\* C33: for a process started with restart = true and maxRestarts = M > 0,
\* and never restarted by hand, Restarts is at most M in the object of the
\* goroutine and in the persisted record, and the children spawned (the
\* first has Pid 1, every respawn the next Pid) are at most M + 1.
C33_ServiceRestartCap ==
    /\ (svc # NoRecord /\ svc.Restart /\ svc.MaxRestarts > 0) =>
           (svc.Restarts <= svc.MaxRestarts /\ svc.Pid <= svc.MaxRestarts + 1)
    /\ (svcRun.op = "monitor" /\ svcRun.process.Restart /\ svcRun.process.MaxRestarts > 0) =>
           /\ svcRun.process.Restarts <= svcRun.process.MaxRestarts
           /\ svcRun.process.Pid <= svcRun.process.MaxRestarts + 1

\* The child spawned by the last allowed restart has exited and the
\* goroutine has stopped: the cap was reached and applied.
C33_Witness ==
    /\ svc # NoRecord /\ svc.Restart /\ svc.MaxRestarts = 2
    /\ svc.Restarts = 2 /\ svc.Pid = 3
    /\ svc.Status = "stopped"
    /\ svcRun = NoCall

\* C34: no thread is about to acquire pm.mutex, for writing or for reading,
\* while it holds pm.mutex itself: such a thread waits for itself, never
\* returns, and every later caller of the registry waits behind it.
C34_NoSelfDeadlock ==
    \A t \in LockThreads :
        (threads[t] # <<>> /\ NextOp(t)[1] \in {"Lock", "RLock"} /\ NextOp(t)[2] = "pm") =>
            \A k \in DOMAIN held[t] : held[t][k][1] # "pm"

\* C35: for every name at most one child spawned for that name is alive.
C35_OneLiveChild ==
    \A n \in Names :
        Cardinality({i \in Objects : heap[i].Config.Name = n /\ child[i] = "alive"}) <= 1

\* C36: no step takes the registry entry or the PID file away from a child
\* that is alive and was never stopped: the cleanup after the exit of an
\* earlier child of the same name leaves them alone.
C36_CleanupScoped ==
    [][\A i \in Objects :
          (child[i] = "alive" /\ stops[i] = 0) =>
              LET n == heap[i].Config.Name IN
              /\ processes[n] = i => processes'[n] = i
              /\ pidFile[n] = i => pidFile'[n] = i
      ]_vars

\* C37: StopProcess on a registered record, a record rebuilt by
\* LoadRunningProcesses included, signals the PID or returns an error: the
\* manager never panics on a missing process handle.
C37_StopNeverCrashes == rpc.phase # "panic"

(***************************************************************************)
(* The script endpoints of the API server.  Every request constructs a     *)
(* ScriptService: a new cron scheduler that is started, loaded with the    *)
(* persisted scripts and never stopped, so cronEntries counts, per script  *)
(* name, the entries of all the schedulers running in the server process.  *)
(***************************************************************************)
\* NewScriptService in a process that already runs schedulers: one more
\* entry for every persisted script whose schedule the scheduler accepts.
loadScheduledScripts(entries) ==
    [n \in ScriptNames |->
        entries[n] + (IF ScriptGet(n) /\ ValidSchedule(scripts[n].Schedule) THEN 1 ELSE 0)]

\* The run stays within MaxEntries entries for a name.
WithinEntries(entries) == \A n \in ScriptNames : entries[n] <= MaxEntries

\* GET /api/scripts, GET /api/scripts/{name} and POST /api/scripts/{name}/run:
\* the service is constructed, the scripts are read or one is run.
handleScriptsGet ==
    /\ WithinEntries(loadScheduledScripts(cronEntries))
    /\ cronEntries' = loadScheduledScripts(cronEntries)
    /\ scriptLast' = [op |-> "List", name |-> "", err |-> ""]
    /\ UNCHANGED scripts
    /\ UNCHANGED outsideScripts

\* POST /api/scripts: the service is constructed, then Add.
handleScriptsPost(name, file, schedule, process) ==
    LET entries == loadScheduledScripts(cronEntries) IN
    /\ WithinEntries([entries EXCEPT ![name] = @ + 1])
    /\ IF AddRejected(name, file, process) # ""
       THEN /\ scriptLast' = [op |-> "Add", name |-> name,
                              err |-> AddRejected(name, file, process)]
            /\ cronEntries' = entries
            /\ UNCHANGED scripts
       ELSE /\ scripts' = [scripts EXCEPT ![name] = Script(file, schedule, process)]
            /\ cronEntries' = IF ValidSchedule(schedule)
                              THEN [entries EXCEPT ![name] = @ + 1]
                              ELSE entries
            /\ scriptLast' = [op |-> "Add", name |-> name, err |-> scheduleScript(schedule)]
    /\ UNCHANGED outsideScripts

\* DELETE /api/scripts/{name}: the service is constructed, then Remove.
handleScriptDelete(name) ==
    LET entries == loadScheduledScripts(cronEntries) IN
    /\ WithinEntries(entries)
    /\ cronEntries' = entries
    /\ IF ScriptGet(name)
       THEN /\ scripts' = [scripts EXCEPT ![name] = NoScript]
            /\ scriptLast' = [op |-> "Remove", name |-> name, err |-> ""]
       ELSE /\ scriptLast' = [op |-> "Remove", name |-> name, err |-> "not found"]
            /\ UNCHANGED scripts
    /\ UNCHANGED outsideScripts

ScriptApiNext ==
    \/ handleScriptsGet
    \/ \E name \in ScriptNames, file \in ScriptFiles, schedule \in Schedules,
          process \in ScriptProcesses : handleScriptsPost(name, file, schedule, process)
    \/ \E name \in ScriptNames : handleScriptDelete(name)

ScriptApiSpec == ScriptInit /\ [][ScriptApiNext]_vars

\* C38: a persisted script with a schedule has at most one cron entry in
\* the server process, and a script that is not persisted has none.
C38_SingleCronRegistration ==
    \A n \in ScriptNames :
        IF ScriptGet(n) THEN cronEntries[n] <= 1 ELSE cronEntries[n] = 0

(***************************************************************************)
(* Shell sessions: the websocket handler and the shell command call        *)
(* AttachShell(name), pump bytes, and call DetachShell(name) when the      *)
(* session ends.  shellPc keeps the session of each client with the PTY    *)
(* master AttachShell returned to it.                                      *)
(***************************************************************************)
\* AttachShell returns to the handler: the handle is stored on the record
\* and the session is open.
SessionOpen(c) ==
    /\ shellPc[c].op = "AttachShell"
    /\ shellHeap' = [shellHeap EXCEPT ![shellPc[c].proc].PTY = shellPc[c].ptmx]
    /\ shellLast' = [op |-> "AttachShell", client |-> c, name |-> shellPc[c].name,
                     proc |-> shellPc[c].proc, err |-> "", pty |-> shellPc[c].ptmx]
    /\ shellPc' = [shellPc EXCEPT ![c].op = "session"]
    /\ UNCHANGED <<shellProcs, ptys, ptyCount, signals>>
    /\ UNCHANGED outsideShell

\* The session ends: the deferred DetachShell(name), its error dropped.
SessionClose(c) ==
    /\ shellPc[c].op = "session"
    /\ LET n == shellPc[c].name
           i == shellProcs[n]
           ret(e, closed) == [op |-> "DetachShell", client |-> c, name |-> n,
                              proc |-> i, err |-> e, pty |-> closed]
       IN IF i = 0
          THEN /\ shellLast' = ret("not found", 0)
               /\ UNCHANGED <<shellHeap, ptys>>
          ELSE /\ shellLast' = ret("", shellHeap[i].PTY)
               /\ IF shellHeap[i].PTY # 0
                  THEN /\ ptys' = ptys \ {shellHeap[i].PTY}
                       /\ shellHeap' = [shellHeap EXCEPT ![i] = Detached(shellHeap[i])]
                  ELSE UNCHANGED <<shellHeap, ptys>>
    /\ shellPc' = [shellPc EXCEPT ![c] = Idle]
    /\ UNCHANGED <<shellProcs, ptyCount, signals>>
    /\ UNCHANGED outsideShell

SessionNext ==
    \/ \E n \in ShellNames : RegisterTarget(n)
    \/ \E n \in ShellNames : StopTarget(n)
    \/ \E n \in ShellNames : UnregisterTarget(n)
    \/ \E c \in Clients, n \in ShellNames : AttachShell(c, n)
    \/ \E c \in Clients : SessionOpen(c)
    \/ \E c \in Clients : SessionClose(c)

SessionSpec == ShellInit /\ [][SessionNext]_vars

\* The PTY master of the session of a client, 0 without one.
SessionPTY(c) == IF shellPc[c].op \in {"AttachShell", "session"} THEN shellPc[c].ptmx ELSE 0

\* C40: every open PTY master is the one of a session that is still open
\* (none is leaked), the PTY master of every open session is open (no
\* detach closed it for another session), and the PTY field of a record is
\* set exactly when a session is attached to the record and then holds
\* the PTY master of such a session.
C40_PTYPaired ==
    /\ \A p \in ptys : \E c \in Clients : SessionPTY(c) = p
    /\ \A c \in Clients : shellPc[c].op = "session" => shellPc[c].ptmx \in ptys
    /\ \A i \in DOMAIN shellHeap :
           IF shellHeap[i].PTY # 0
           THEN \E c \in Clients : /\ shellPc[c].op = "session"
                                   /\ shellPc[c].proc = i
                                   /\ shellPc[c].ptmx = shellHeap[i].PTY
           ELSE \A c \in Clients : ~(shellPc[c].op = "session" /\ shellPc[c].proc = i)

====
